---------------------------- MODULE Spec2Model ----------------------------
(***************************************************************************)
(* Model of string_searching_algorithms.py: Knuth-Morris-Pratt, the Z      *)
(* algorithm, the polynomial rolling hash, the Aho-Corasick automaton with *)
(* its scan consumers, addBoldTag and Manacher's algorithm.                *)
(*                                                                         *)
(* Python sequences are 0-indexed; a Python list x is modelled by the TLA+ *)
(* sequence with x[k] (Python) = x[k + 1] (TLA+).  Lists indexed by node   *)
(* id (goto, failure, out, out_lens) are functions on 0 .. N - 1.          *)
(***************************************************************************)
EXTENDS Integers, Sequences, FiniteSets, TLC

VARIABLES
    pc,         \* position of the running call
    op,         \* which entry point the behaviour exercises
    s,          \* the text (argument s)
    pattern,    \* KnuthMorrisPratt / ZAlgorithm pattern
    words,      \* AhoCorasick.words / patterns of rollingHashSearch
    kmp_out,    \* indices yielded by KnuthMorrisPratt.matchStartGenerator
    z_out,      \* indices yielded by ZAlgorithm.matchStartGenerator
    radii,      \* list returned by manacherAlgorithm
    hash_out,   \* value returned (or exception raised) by rollingHashSearch
    roll_len,   \* argument length of rollingHash
    roll_out,   \* tuples yielded (and exception raised) by rollingHash
    goto,       \* AhoCorasick.goto
    failure,    \* AhoCorasick.failure
    out,        \* AhoCorasick.out
    out_lens,   \* AhoCorasick.out_lens
    queue,      \* the deque of buildAutomaton
    wi,         \* number of words buildAutomaton has inserted
    j,          \* current node of search
    i,          \* number of text elements search has consumed
    res,        \* the dict search builds
    rngs,       \* addBoldTag: per-pattern merged ranges
    heap,       \* addBoldTag: the heap
    popped,     \* addBoldTag: the entries heappop has returned, in order
    outp,       \* addBoldTag: the list res of output pieces
    bs_i,       \* addBoldTag: start of the current bold span
    be_i,       \* addBoldTag: end of the current bold span
    ret,        \* addBoldTag: the returned string
    scans       \* concurrent scans over one automaton

vars == <<pc, op, s, pattern, words, kmp_out, z_out, radii, hash_out,
          roll_len, roll_out,
          goto, failure, out, out_lens, queue, wi, j, i, res,
          rngs, heap, popped, outp, bs_i, be_i, ret, scans>>

pureVars == <<pattern, kmp_out, z_out, radii, hash_out, roll_len, roll_out>>
autVars == <<goto, failure, out, out_lens>>
buildVars == <<queue, wi>>
searchVars == <<j, i, res>>
boldVars == <<rngs, heap, popped, outp, bs_i, be_i, ret>>

(***************************************************************************)
(* Bounds of the model.                                                    *)
(***************************************************************************)
MaxPatLen == 3      \* longest pattern given to KMP / Z
MaxTextLen == 5     \* longest text given to KMP / Z

Alphabet == {"a", "b"}

RECURSIVE SeqsUpTo(_, _)
SeqsUpTo(A, n) ==
    IF n = 0 THEN {<<>>}
    ELSE LET shorter == SeqsUpTo(A, n - 1)
         IN  shorter \cup {Append(t, a) : t \in {u \in shorter : Len(u) = n - 1}, a \in A}

Max(a, b) == IF a >= b THEN a ELSE b
Min(a, b) == IF a <= b THEN a ELSE b

\* range(a, b) as a sequence
Range(a, b) == [k \in 1 .. Max(b - a, 0) |-> a + k - 1]

\* Python slice x[a:b] for 0 <= a
Slice(x, a, b) == SubSeq(x, a + 1, Min(b, Len(x)))

SeqToSet(x) == {x[k] : k \in 1 .. Len(x)}

StrictlyAscending(x) == \A k \in 1 .. Len(x) - 1 : x[k] < x[k + 1]

\* Brute-force substring scanning: the indices of the text at which p occurs
BruteForce(p, t) ==
    {k \in 0 .. Len(t) - 1 :
        k + Len(p) <= Len(t) /\ SubSeq(t, k + 1, k + Len(p)) = p}

(***************************************************************************)
(* KnuthMorrisPratt                                                        *)
(***************************************************************************)
\* The loop "while l != p[j]: if not j: break; j = lps[j - 1]" with its
\* else branch: hit is TRUE when the loop ended because l = p[j].
RECURSIVE KmpFall(_, _, _, _)
KmpFall(p, lps, jj, l) ==
    IF l = p[jj + 1] THEN [j |-> jj, hit |-> TRUE]
    ELSE IF jj = 0 THEN [j |-> 0, hit |-> FALSE]
    ELSE KmpFall(p, lps, lps[jj], l)

RECURSIVE LpsLoop(_, _, _, _)
LpsLoop(p, k, jj, lps) ==
    IF k > Len(p) THEN lps
    ELSE LET r == KmpFall(p, lps, jj, p[k])
             j2 == IF r.hit THEN r.j + 1 ELSE r.j
         IN  LpsLoop(p, k + 1, j2, Append(lps, j2))

constructLPS(p) == LpsLoop(p, 2, 0, <<0>>)

\* "j = lps[-1]" after a match has been yielded
MatchResetZero(lps) == 0
MatchReset(lps) == lps[Len(lps)]

RECURSIVE KmpScan(_, _, _, _, _, _)
KmpScan(p, lps, t, k, jj, acc) ==
    IF k = Len(t) THEN acc
    ELSE LET r == KmpFall(p, lps, jj, t[k + 1])
             m == Len(p)
         IN  IF ~r.hit THEN KmpScan(p, lps, t, k + 1, r.j, acc)
             ELSE IF r.j + 1 # m THEN KmpScan(p, lps, t, k + 1, r.j + 1, acc)
             ELSE KmpScan(p, lps, t, k + 1, MatchReset(lps),
                          Append(acc, k - m + 1))

KmpMatchStarts(p, t) ==
    IF Len(p) = 0 THEN Range(0, Len(t))
    ELSE IF Len(p) > Len(t) THEN <<>>
    ELSE KmpScan(p, constructLPS(p), t, 0, 0, <<>>)

(***************************************************************************)
(* ZAlgorithm                                                              *)
(***************************************************************************)
wild == "$"

\* "for rgt in range(max(rgt, i), n): if s[rgt] != s[rgt - lft]: break"
\* "else: rgt = n"
RECURSIVE ZExtend(_, _, _)
ZExtend(t, lft, rgt) ==
    IF rgt >= Len(t) THEN Len(t)
    ELSE IF t[rgt + 1] # t[rgt - lft + 1] THEN rgt
    ELSE ZExtend(t, lft, rgt + 1)

RECURSIVE ZLoop(_, _, _, _, _)
ZLoop(t, k, lft, rgt, zr) ==
    IF k >= Len(t) THEN zr
    ELSE IF zr[k - lft + 1] < rgt - k
         THEN ZLoop(t, k + 1, lft, rgt, [zr EXCEPT ![k + 1] = zr[k - lft + 1]])
         ELSE LET r2 == ZExtend(t, k, Max(rgt, k))
              IN  ZLoop(t, k + 1, k, r2, [zr EXCEPT ![k + 1] = r2 - k])

constructZArray(t) ==
    LET n == Len(t)
        zr == ZLoop(t, 1, 0, 1, [k \in 1 .. n |-> 0])
    IN  IF n = 0 THEN zr ELSE [zr EXCEPT ![1] = n]

RECURSIVE ZYield(_, _, _, _, _)
ZYield(z_arr, m, k, stop, acc) ==
    IF k >= stop THEN acc
    ELSE ZYield(z_arr, m, k + 1, stop,
                IF z_arr[k + 1] = m THEN Append(acc, k - m - 1) ELSE acc)

ZMatchStarts(p, t) ==
    LET s2 == p \o <<wild>> \o t
        m == Len(p)
        n2 == Len(s2)
        n == n2 - m - 1
        z_arr == constructZArray(s2)
    IN  ZYield(z_arr, m, m + 1, n, <<>>)

(***************************************************************************)
(* Specification SpecMatch: one pattern and one text are searched by       *)
(* KnuthMorrisPratt and then by ZAlgorithm.                                *)
(***************************************************************************)
NoSeq == <<>>

IdlePure == /\ pattern = NoSeq /\ kmp_out = NoSeq /\ z_out = NoSeq
            /\ radii = NoSeq /\ hash_out = NoSeq
            /\ roll_len = 0 /\ roll_out = NoSeq
IdleAut == /\ goto = <<>> /\ failure = <<>> /\ out = <<>> /\ out_lens = <<>>
           /\ queue = <<>> /\ wi = 0
IdleSearch == j = 0 /\ i = 0 /\ res = <<>>
IdleBold == /\ rngs = <<>> /\ heap = {} /\ outp = <<>> /\ bs_i = 0 /\ be_i = 0
            /\ ret = <<>> /\ popped = <<>>

InitMatch ==
    /\ pc = "call_kmp" /\ op = "match"
    /\ pattern \in SeqsUpTo(Alphabet, MaxPatLen)
    /\ s \in SeqsUpTo(Alphabet, MaxTextLen)
    /\ words = <<>>
    /\ kmp_out = NoSeq /\ z_out = NoSeq /\ radii = NoSeq /\ hash_out = NoSeq
    /\ roll_len = 0 /\ roll_out = NoSeq
    /\ IdleAut /\ IdleSearch /\ IdleBold /\ scans = <<>>

KMPCall ==
    /\ pc = "call_kmp"
    /\ kmp_out' = KmpMatchStarts(pattern, s)
    /\ pc' = "call_z"
    /\ UNCHANGED <<op, s, pattern, words, z_out, radii, hash_out,
                   roll_len, roll_out, autVars,
                   buildVars, searchVars, boldVars, scans>>

ZCall ==
    /\ pc = "call_z"
    /\ z_out' = ZMatchStarts(pattern, s)
    /\ pc' = "done"
    /\ UNCHANGED <<op, s, pattern, words, kmp_out, radii, hash_out,
                   roll_len, roll_out, autVars,
                   buildVars, searchVars, boldVars, scans>>

NextMatch == KMPCall \/ ZCall

SpecMatch == InitMatch /\ [][NextMatch]_vars

\* The longest proper prefix of q that is also a suffix of q
LongestBorder(q) ==
    CHOOSE b \in 0 .. Len(q) - 1 :
        /\ SubSeq(q, 1, b) = SubSeq(q, Len(q) - b + 1, Len(q))
        /\ \A c \in (b + 1) .. (Len(q) - 1) :
               SubSeq(q, 1, c) # SubSeq(q, Len(q) - c + 1, Len(q))

\* C5: for a non-empty pattern, KnuthMorrisPratt.matchStartGenerator yields
\* exactly the brute-force match indices, each once and strictly ascending,
\* and constructLPS gives at index k the length of the longest proper prefix
\* of p[:k + 1] that is also its suffix.
C5_KmpIsBruteForce ==
    (pc # "call_kmp" /\ Len(pattern) > 0) =>
        /\ SeqToSet(kmp_out) = BruteForce(pattern, s)
        /\ StrictlyAscending(kmp_out)
        /\ LET lps == constructLPS(pattern)
           IN  /\ Len(lps) = Len(pattern)
               /\ \A k \in 1 .. Len(pattern) :
                      lps[k] = LongestBorder(SubSeq(pattern, 1, k))

\* C5 witness: an overlapping double match has been yielded
C5_Witness ==
    /\ pc # "call_kmp" /\ pattern = <<"a", "b", "a">>
    /\ s = <<"a", "b", "a", "b", "a">> /\ kmp_out = <<0, 2>>

\* C6: KMP, the Z algorithm and brute-force scanning yield the same indices
\* (the separator does not occur in pattern or text), also for a match that
\* ends at the last element of the text and for the empty pattern.
C6_ZEqualsKmpAndBruteForce ==
    pc = "done" =>
        /\ z_out = kmp_out
        /\ SeqToSet(z_out) = BruteForce(pattern, s)

(***************************************************************************)
(* manacherAlgorithm                                                       *)
(***************************************************************************)
MaxManLen == 6      \* longest sequence given to manacherAlgorithm

ManAlphabet == {"a", "b", "d", "e"}

\* "res[i] = min(res[mirror], curr_right - i)"
MirrorBoundNoClamp(rm, d) == rm
MirrorBound(rm, d) == Min(rm, d)

\* "while i - res[i] - 1 >= 0 and i + res[i] + 1 < len(s) and
\*        s[i + res[i] + 1] == s[i - res[i] - 1]: res[i] += 1"
RECURSIVE ManExpand(_, _, _)
ManExpand(t, k, r) ==
    IF k - r - 1 >= 0 /\ k + r + 1 < Len(t) /\ t[k + r + 2] = t[k - r]
    THEN ManExpand(t, k, r + 1)
    ELSE r

\* The loop over i; max_val and max_i are written but never read, so they
\* are not part of the state.
RECURSIVE ManLoop(_, _, _, _, _)
ManLoop(t, k, curr_centre, curr_right, rs) ==
    IF k >= Len(t) THEN rs
    ELSE LET mirror == 2 * curr_centre - k
             r0 == IF k < curr_right
                   THEN MirrorBound(rs[mirror + 1], curr_right - k)
                   ELSE 0
             r1 == ManExpand(t, k, r0)
             rs1 == [rs EXCEPT ![k + 1] = r1]
         IN  IF k + r1 > curr_right
             THEN ManLoop(t, k + 1, k, k + r1, rs1)
             ELSE ManLoop(t, k + 1, curr_centre, curr_right, rs1)

manacherAlgorithm(t) == ManLoop(t, 0, 0, 0, [k \in 1 .. Len(t) |-> 0])

InitManacher ==
    /\ pc = "call" /\ op = "manacher"
    /\ s \in SeqsUpTo(ManAlphabet, MaxManLen)
    /\ words = <<>>
    /\ IdlePure /\ IdleAut /\ IdleSearch /\ IdleBold /\ scans = <<>>

ManacherCall ==
    /\ pc = "call"
    /\ radii' = manacherAlgorithm(s)
    /\ pc' = "done"
    /\ UNCHANGED <<op, s, pattern, words, kmp_out, z_out, hash_out,
                   roll_len, roll_out, autVars,
                   buildVars, searchVars, boldVars, scans>>

NextManacher == ManacherCall

SpecManacher == InitManacher /\ [][NextManacher]_vars

\* r is a palindrome radius at (0-based) centre k of t
IsRadius(t, k, r) ==
    \A d \in 1 .. r :
        k - d >= 0 /\ k + d < Len(t) /\ t[k - d + 1] = t[k + d + 1]

BruteRadius(t, k) ==
    CHOOSE r \in 0 .. Len(t) : IsRadius(t, k, r) /\ ~IsRadius(t, k, r + 1)

\* C7: manacherAlgorithm(s)[i] is the brute-force maximal palindrome radius
\* at centre i, for every s and i; manacherAlgorithm("ebabad") is
\* [0, 0, 1, 1, 0, 0].
C7_ManacherIsBruteForce ==
    pc = "done" =>
        /\ Len(radii) = Len(s)
        /\ \A k \in 0 .. Len(s) - 1 : radii[k + 1] = BruteRadius(s, k)
        /\ (s = <<"e", "b", "a", "b", "a", "d">> => radii = <<0, 0, 1, 1, 0, 0>>)

\* C7 witness: the documented example has been computed
C7_Witness ==
    /\ pc = "done" /\ s = <<"e", "b", "a", "b", "a", "d">>
    /\ radii = <<0, 0, 1, 1, 0, 0>>

(***************************************************************************)
(* rollingHash and rollingHashSearch                                       *)
(***************************************************************************)
MaxHashTextLen == 4     \* longest text given to rollingHashSearch
MaxHashPatLen == 2      \* longest pattern given to rollingHashSearch
MaxHashPatterns == 2    \* most patterns given to rollingHashSearch

HashAlphabet == {"A", "B"}

md == 1000000007
p_lst == <<31, 37>>

ord(l) == IF l = "A" THEN 65 ELSE 66
ord_A == 65
char2num(l) == ord(l) - ord_A

\* (a * b) % m for 0 <= a < m and b >= 0.  Python integers are unbounded;
\* the product is built by doubling so that no intermediate value exceeds
\* 2 * m, which gives the same residue.
RECURSIVE MulMod(_, _, _)
MulMod(a, b, m) ==
    IF b = 0 THEN 0
    ELSE LET h == MulMod(a, b \div 2, m)
             d == (h + h) % m
         IN  IF b % 2 = 1 THEN (d + a) % m ELSE d

\* pow(p, e, m)
RECURSIVE PowMod(_, _, _)
PowMod(p, e, m) == IF e = 0 THEN 1 % m ELSE MulMod(PowMod(p, e - 1, m), p, m)

\* "hsh[j] = (hsh[j] * p + val) % md" for every j
HashPush(hsh, val) ==
    [jj \in 1 .. Len(p_lst) |-> (MulMod(hsh[jj], p_lst[jj], md) + val) % md]

RECURSIVE HashFirst(_, _, _)
HashFirst(t, k, hsh) ==
    IF k = 0 THEN hsh
    ELSE HashPush(HashFirst(t, k - 1, hsh), char2num(t[k]))

\* One pass of "for j, p in enumerate(p_lst):
\*     hsh[j] = ((hsh[j] - mults[j] * val_qu.popleft()) * p + val) % md"
\* popleft runs once per base; on an empty deque it raises IndexError.
RECURSIVE HashSlide(_, _, _, _, _)
HashSlide(jj, hsh, val_qu, mults, val) ==
    IF jj > Len(p_lst) THEN [hsh |-> hsh, val_qu |-> val_qu, raised |-> FALSE]
    ELSE IF val_qu = <<>> THEN [hsh |-> hsh, val_qu |-> val_qu, raised |-> TRUE]
    ELSE LET old == Head(val_qu)
             sub == ((hsh[jj] - MulMod(mults[jj], old, md)) + md) % md
             nxt == (MulMod(sub, p_lst[jj], md) + val) % md
         IN  HashSlide(jj + 1, [hsh EXCEPT ![jj] = nxt], Tail(val_qu), mults, val)

RECURSIVE HashRoll(_, _, _, _, _, _)
HashRoll(t, k, hsh, val_qu, mults, acc) ==
    IF k >= Len(t) THEN [yields |-> acc, raised |-> FALSE]
    ELSE LET val == char2num(t[k + 1])
             r == HashSlide(1, hsh, Append(val_qu, val), mults, val)
         IN  IF r.raised THEN [yields |-> acc, raised |-> TRUE]
             ELSE HashRoll(t, k + 1, r.hsh, r.val_qu, mults, Append(acc, r.hsh))

\* rollingHash(s, length, p_lst, md, func = char2num): the tuples yielded and
\* whether the generator then raised
rollingHash(t, length) ==
    IF Len(t) < length THEN [yields |-> <<>>, raised |-> FALSE]
    ELSE LET h0 == HashFirst(t, length, [jj \in 1 .. Len(p_lst) |-> 0])
             q0 == [k \in 1 .. length |-> char2num(t[k])]
             mults == [jj \in 1 .. Len(p_lst) |-> PowMod(p_lst[jj], length, md)]
         IN  HashRoll(t, length, h0, q0, mults, <<h0>>)

\* Python dicts keep insertion order: keys lists the keys in that order
EmptyDict == [keys |-> <<>>, val |-> <<>>]
DictHas(d, k) == k \in DOMAIN d.val
\* "d.setdefault(k, []); d[k].append(v)"
DictAppend(d, k, v) ==
    IF DictHas(d, k)
    THEN [d EXCEPT !.val[k] = Append(@, v)]
    ELSE [keys |-> Append(d.keys, k), val |-> (k :> <<v>>) @@ d.val]

\* pattern_dict: the lengths in order of first use, and per length the
\* patterns filed under each hash
RECURSIVE PatternLengths(_, _)
PatternLengths(pats, k) ==
    IF k = 0 THEN <<>>
    ELSE LET prev == PatternLengths(pats, k - 1)
         IN  IF Len(pats[k]) \in SeqToSet(prev) THEN prev
             ELSE Append(prev, Len(pats[k]))

PatternHash(pat) == rollingHash(pat, Len(pat)).yields[1]

HshDict(pats, length) ==
    [h \in {PatternHash(pats[k]) : k \in {x \in 1 .. Len(pats) : Len(pats[x]) = length}}
        |-> {pats[k] : k \in {x \in 1 .. Len(pats) :
                                 Len(pats[x]) = length /\ PatternHash(pats[x]) = h}}]

RECURSIVE HashEnumerate(_, _, _, _, _, _)
HashEnumerate(t, length, hsh_dict, ys, k, d) ==
    IF k >= Len(ys) THEN d
    ELSE LET hsh == ys[k + 1]
             cand == Slice(t, k, k + length)
         IN  IF hsh \notin DOMAIN hsh_dict \/ cand \notin hsh_dict[hsh]
             THEN HashEnumerate(t, length, hsh_dict, ys, k + 1, d)
             ELSE HashEnumerate(t, length, hsh_dict, ys, k + 1,
                                DictAppend(d, cand, k))

RECURSIVE HashSearchLoop(_, _, _, _, _)
HashSearchLoop(t, pats, lens, k, d) ==
    IF k > Len(lens) THEN [exc |-> "none", val |-> d]
    ELSE LET gen == rollingHash(t, lens[k])
             d2 == HashEnumerate(t, lens[k], HshDict(pats, lens[k]),
                                 gen.yields, 0, d)
         IN  IF gen.raised THEN [exc |-> "IndexError", val |-> EmptyDict]
             ELSE HashSearchLoop(t, pats, lens, k + 1, d2)

rollingHashSearch(t, pats) ==
    HashSearchLoop(t, pats, PatternLengths(pats, Len(pats)), 1, EmptyDict)

InitHash ==
    /\ pc = "call" /\ op = "rollingHashSearch"
    /\ s \in SeqsUpTo(HashAlphabet, MaxHashTextLen)
    /\ words \in SeqsUpTo(SeqsUpTo(HashAlphabet, MaxHashPatLen), MaxHashPatterns)
    /\ IdlePure /\ IdleAut /\ IdleSearch /\ IdleBold /\ scans = <<>>

RollingHashSearchCall ==
    /\ pc = "call"
    /\ hash_out' = rollingHashSearch(s, words)
    /\ pc' = "done"
    /\ UNCHANGED <<op, s, pattern, words, kmp_out, z_out, radii,
                   roll_len, roll_out, autVars,
                   buildVars, searchVars, boldVars, scans>>

NextHash == RollingHashSearchCall

SpecHash == InitHash /\ [][NextHash]_vars

(***************************************************************************)
(* Specification SpecRoll: rollingHash(s, length, p_lst, md, char2num) is  *)
(* run to its end.                                                         *)
(***************************************************************************)
MaxWindow == 3      \* longest window length given to rollingHash

InitRoll ==
    /\ pc = "call" /\ op = "rollingHash"
    /\ s \in SeqsUpTo(HashAlphabet, MaxHashTextLen)
    /\ roll_len \in 0 .. MaxWindow
    /\ words = <<>>
    /\ pattern = NoSeq /\ kmp_out = NoSeq /\ z_out = NoSeq
    /\ radii = NoSeq /\ hash_out = NoSeq /\ roll_out = NoSeq
    /\ IdleAut /\ IdleSearch /\ IdleBold /\ scans = <<>>

RollingHashCall ==
    /\ pc = "call"
    /\ roll_out' = rollingHash(s, roll_len)
    /\ pc' = "done"
    /\ UNCHANGED <<op, s, pattern, words, kmp_out, z_out, radii, hash_out,
                   roll_len, autVars, buildVars, searchVars, boldVars, scans>>

NextRoll == RollingHashCall

SpecRoll == InitRoll /\ [][NextRoll]_vars

\* (sum over u in 0 .. n - 1 of char2num(w[u + 1]) * p^(n - 1 - u)) mod md for
\* the first n elements of w, n <= Len(w)
RECURSIVE PolySum(_, _, _)
PolySum(w, p, n) ==
    IF n = 0 THEN 0
    ELSE (PolySum(w, p, n - 1)
            + MulMod(PowMod(p, Len(w) - n, md), char2num(w[n]), md)) % md

\* the polynomial hash of window w alone, one value per base
PolyHash(w) == [jj \in 1 .. Len(p_lst) |-> PolySum(w, p_lst[jj], Len(w))]

\* C14: for a window length L >= 1 rollingHash yields len(s) - L + 1 tuples
\* (none when the text is shorter than L) and the k-th tuple is the
\* polynomial hash of the window s[k:k + L] alone, so the sliding update
\* agrees with recomputing the hash from scratch.
C14_RollingHashIsPolynomial ==
    (pc = "done" /\ op = "rollingHash" /\ roll_len >= 1) =>
        /\ ~roll_out.raised
        /\ Len(roll_out.yields) = Max(Len(s) - roll_len + 1, 0)
        /\ \A k \in 1 .. Len(roll_out.yields) :
               roll_out.yields[k] = PolyHash(SubSeq(s, k, k + roll_len - 1))

\* the ascending list of the elements of a finite set of integers
RECURSIVE SortedSeq(_)
SortedSeq(S) ==
    IF S = {} THEN <<>>
    ELSE LET m == CHOOSE x \in S : \A y \in S : x <= y
         IN  <<m>> \o SortedSeq(S \ {m})

\* C8: for non-empty patterns rollingHashSearch returns a mapping whose keys
\* are exactly the patterns that occur in the text, each mapped to the
\* ascending list of all its start indices.
C8_RollingHashSearchFindsAll ==
    (pc = "done" /\ \A k \in 1 .. Len(words) : Len(words[k]) > 0) =>
        /\ hash_out.exc = "none"
        /\ DOMAIN hash_out.val.val =
               {w \in SeqToSet(words) : BruteForce(w, s) # {}}
        /\ \A w \in DOMAIN hash_out.val.val :
               hash_out.val.val[w] = SortedSeq(BruteForce(w, s))

(***************************************************************************)
(* AhoCorasick                                                             *)
(***************************************************************************)
MaxWords == 2       \* most patterns given to AhoCorasick
MaxWordLen == 2     \* longest pattern given to AhoCorasick
MaxSearchLen == 3   \* longest text given to search / addBoldTag

WordLists == SeqsUpTo(SeqsUpTo(Alphabet, MaxWordLen), MaxWords)

\* Python integers used as bitsets
RECURSIVE BitOr(_, _)
BitOr(a, b) ==
    IF a = 0 THEN b
    ELSE IF b = 0 THEN a
    ELSE (IF a % 2 = 1 \/ b % 2 = 1 THEN 1 ELSE 0) + 2 * BitOr(a \div 2, b \div 2)

Shl(k) == 2 ^ k                     \* 1 << k

\* "d.get(l, 0)"
DictGet(d, l) == IF l \in DOMAIN d THEN d[l] ELSE 0

\* The automaton as one value
Aut(g, f, o, ol) == [goto |-> g, failure |-> f, out |-> o, out_lens |-> ol]

NumNodes(A) == Cardinality(DOMAIN A.goto)

\* lines 447-451: a new node is appended to the four lists
AddNode(A, jj, l) ==
    LET n == NumNodes(A)
    IN  [goto |-> [k \in 0 .. n |->
                      IF k = n THEN <<>>
                      ELSE IF k = jj THEN (l :> n) @@ A.goto[k]
                      ELSE A.goto[k]],
         failure |-> [k \in 0 .. n |-> IF k = n THEN 0 ELSE A.failure[k]],
         out |-> [k \in 0 .. n |-> IF k = n THEN 0 ELSE A.out[k]],
         out_lens |-> [k \in 0 .. n |-> IF k = n THEN 0 ELSE A.out_lens[k]]]

\* lines 445-452: walk word w from node jj, creating missing nodes
RECURSIVE TrieWalk(_, _, _, _)
TrieWalk(A, w, k, jj) ==
    IF k > Len(w) THEN [aut |-> A, j |-> jj]
    ELSE LET A2 == IF w[k] \in DOMAIN A.goto[jj] THEN A ELSE AddNode(A, jj, w[k])
         IN  TrieWalk(A2, w, k + 1, A2.goto[jj][w[k]])

\* lines 444-454: one iteration of "for i, w in enumerate(self.words)"
InsertOne(A, idx, w) ==
    LET r == TrieWalk(A, w, 1, 0)
        B == r.aut
    IN  [B EXCEPT !.out[r.j] = BitOr(@, Shl(idx)),
                  !.out_lens[r.j] = BitOr(@, Shl(Len(w)))]

\* the ascending list of the elements of a finite set of integers
RECURSIVE SortedInts(_)
SortedInts(S) ==
    IF S = {} THEN <<>>
    ELSE LET m == CHOOSE x \in S : \A y \in S : x <= y
         IN  <<m>> \o SortedInts(S \ {m})

\* "self.goto[j].values()" / ".items()": dicts iterate in insertion order,
\* and a node's children are inserted in increasing order of their ids
Children(g, jj) == SortedInts({g[jj][l] : l \in DOMAIN g[jj]})
EdgeLabel(g, jj, c) == CHOOSE l \in DOMAIN g[jj] : g[jj][l] = c

\* lines 462-463: "while j_f and l not in self.goto[j_f].keys()"
RECURSIVE FailChase(_, _, _)
FailChase(A, jf, l) ==
    IF jf # 0 /\ l \notin DOMAIN A.goto[jf]
    THEN FailChase(A, A.failure[jf], l)
    ELSE jf

\* lines 461-467: the failure link and bitsets of child j2 of node jj
LinkChildSelfLoop(A, jj, j2) ==
    LET l == EdgeLabel(A.goto, jj, j2)
        j_f == DictGet(A.goto[FailChase(A, A.failure[jj], l)], l)
    IN  [A EXCEPT !.failure[j2] = j2,
                  !.out[j2] = BitOr(@, A.out[j_f]),
                  !.out_lens[j2] = BitOr(@, A.out_lens[j_f])]

LinkChild(A, jj, j2) ==
    LET l == EdgeLabel(A.goto, jj, j2)
        j_f == DictGet(A.goto[FailChase(A, A.failure[jj], l)], l)
    IN  [A EXCEPT !.failure[j2] = j_f,
                  !.out[j2] = BitOr(@, A.out[j_f]),
                  !.out_lens[j2] = BitOr(@, A.out_lens[j_f])]

RECURSIVE LinkChildren(_, _, _, _)
LinkChildren(A, jj, cs, k) ==
    IF k > Len(cs) THEN A
    ELSE LinkChildren(LinkChild(A, jj, cs[k]), jj, cs, k + 1)

\* lines 471-474
FindNextLoopNoChase(A, jj, l) == jj

RECURSIVE FindNextLoop(_, _, _)
FindNextLoop(A, jj, l) ==
    IF jj # 0 /\ l \notin DOMAIN A.goto[jj]
    THEN FindNextLoop(A, A.failure[jj], l)
    ELSE jj

findNext(A, jj, l) == DictGet(A.goto[FindNextLoop(A, jj, l)], l)

\* lines 485-491: the bit scan of search at text index k
RECURSIVE SearchEmit(_, _, _, _, _)
SearchEmit(ws, idx, bm, k, d) ==
    IF idx > Len(ws) \/ bm = 0 THEN d
    ELSE SearchEmit(ws, idx + 1, bm \div 2, k,
                    IF bm % 2 = 1
                    THEN DictAppend(d, ws[idx], k - Len(ws[idx]) + 1)
                    ELSE d)

CurAut == Aut(goto, failure, out, out_lens)

SetAut(A) ==
    /\ goto' = A.goto /\ failure' = A.failure
    /\ out' = A.out /\ out_lens' = A.out_lens

\* lines 435-438
NewAut == Aut([k \in {0} |-> <<>>], [k \in {0} |-> -1],
              [k \in {0} |-> 0], [k \in {0} |-> 0])

(***************************************************************************)
(* Specification Spec: AhoCorasick(words).search(s), called directly or    *)
(* from addBoldTag(s, words).                                              *)
(***************************************************************************)
Init ==
    /\ pc = "entry" /\ op \in {"search", "addBoldTag"}
    /\ s \in SeqsUpTo(Alphabet, MaxSearchLen)
    /\ words \in WordLists
    /\ IdlePure /\ IdleAut /\ IdleSearch /\ IdleBold /\ scans = <<>>

\* AhoCorasick.__init__ up to the call of buildAutomaton
AhoCorasickInit ==
    /\ pc = "entry" /\ op \in {"search", "scan"}
    /\ SetAut(NewAut)
    /\ pc' = "insert"
    /\ UNCHANGED <<op, s, words, pureVars, buildVars, searchVars, boldVars, scans>>

\* buildAutomaton: one pattern is inserted into the trie
InsertWord ==
    /\ pc = "insert" /\ wi < Len(words)
    /\ SetAut(InsertOne(CurAut, wi, words[wi + 1]))
    /\ wi' = wi + 1
    /\ UNCHANGED <<pc, op, s, words, pureVars, queue, searchVars, boldVars, scans>>

\* buildAutomaton line 456
SeedQueue ==
    /\ pc = "insert" /\ wi = Len(words)
    /\ queue' = Children(goto, 0)
    /\ pc' = "bfs"
    /\ UNCHANGED <<op, s, words, pureVars, autVars, wi, searchVars, boldVars, scans>>

\* buildAutomaton lines 458-468: one node is popped and its children linked
BfsStep ==
    /\ pc = "bfs" /\ queue # <<>>
    /\ LET jj == Head(queue)
           cs == Children(goto, jj)
       IN  /\ SetAut(LinkChildren(CurAut, jj, cs, 1))
           /\ queue' = Tail(queue) \o cs
    /\ UNCHANGED <<pc, op, s, words, pureVars, wi, searchVars, boldVars, scans>>

\* buildAutomaton returns; search starts (lines 481-482)
SearchStart ==
    /\ pc = "bfs" /\ queue = <<>> /\ op \in {"search", "addBoldTag"}
    /\ pc' = "search"
    /\ j' = 0 /\ i' = 0 /\ res' = EmptyDict
    /\ UNCHANGED <<op, s, words, pureVars, autVars, buildVars, boldVars, scans>>

\* search lines 483-491: one text element
SearchStep ==
    /\ pc = "search" /\ i < Len(s)
    /\ LET j2 == findNext(CurAut, j, s[i + 1])
       IN  /\ j' = j2
           /\ res' = SearchEmit(words, 1, out[j2], i, res)
    /\ i' = i + 1
    /\ UNCHANGED <<pc, op, s, words, pureVars, autVars, buildVars, boldVars, scans>>

\* search returns res
SearchReturn ==
    /\ pc = "search" /\ i = Len(s)
    /\ pc' = IF op = "search" THEN "done" ELSE "searched"
    /\ UNCHANGED <<op, s, words, pureVars, autVars, buildVars, searchVars,
                   boldVars, scans>>

\* search has been called and has returned
Searched ==
    /\ op \in {"search", "addBoldTag"}
    /\ pc \in {"done", "searched", "heapify", "merge", "finish"}
    /\ DOMAIN goto # {}

\* The pairs (pattern, start index) found by one KMP run per pattern
KmpPairs ==
    UNION {{<<words[k], x>> : x \in SeqToSet(KmpMatchStarts(words[k], s))} :
               k \in 1 .. Len(words)}

\* The pairs recorded in the dict returned by search
ResPairs == UNION {{<<w, x>> : x \in SeqToSet(res.val[w])} : w \in DOMAIN res.val}

\* C1: search returns exactly the (pattern, start index) pairs that KMP
\* finds for each pattern of words, for all pattern sets and texts.
C1_SearchEqualsKmp == Searched => ResPairs = KmpPairs

\* the node at which the path of word w ends
RECURSIVE NodeOf(_, _, _, _)
NodeOf(g, w, k, jj) == IF k > Len(w) THEN jj ELSE NodeOf(g, w, k + 1, g[jj][w[k]])

RECURSIVE OrAll(_)
OrAll(S) ==
    IF S = {} THEN 0
    ELSE LET x == CHOOSE y \in S : TRUE IN BitOr(x, OrAll(S \ {x}))

DirectOut(n) == OrAll({Shl(k - 1) : k \in {x \in 1 .. Len(words) :
                                             NodeOf(goto, words[x], 1, 0) = n}})
DirectLens(n) == OrAll({Shl(Len(words[k])) : k \in {x \in 1 .. Len(words) :
                                             NodeOf(goto, words[x], 1, 0) = n}})

Built == pc \in {"search", "searched", "merge", "finish", "done", "scan"}
             /\ op \in {"search", "addBoldTag", "scan"} /\ DOMAIN goto # {}

\* C2: after buildAutomaton, at every node out is the OR of the bits of the
\* patterns ending there and of out at the failure node, and the same for
\* out_lens, for every pattern set (the root has no failure node).
C2_OutIsClosed ==
    Built =>
        /\ out[0] = DirectOut(0) /\ out_lens[0] = DirectLens(0)
        /\ \A n \in DOMAIN goto \ {0} :
               /\ out[n] = BitOr(DirectOut(n), out[failure[n]])
               /\ out_lens[n] = BitOr(DirectLens(n), out_lens[failure[n]])

\* buildAutomaton has just returned: the scan that follows has not consumed
\* an element yet.  No later step assigns goto, failure, out or out_lens, so
\* every automaton the program builds is seen in such a state.
BuildReturned ==
    pc = "search" /\ i = 0 /\ op \in {"search", "addBoldTag"}

\* the node reached from the root along x, or -1 when x is not a path
RECURSIVE WalkFrom(_, _, _, _)
WalkFrom(g, x, k, n) ==
    IF k > Len(x) THEN n
    ELSE IF x[k] \in DOMAIN g[n] THEN WalkFrom(g, x, k + 1, g[n][x[k]])
    ELSE -1

ParentOf(g, n) == CHOOSE p \in DOMAIN g : \E l \in DOMAIN g[p] : g[p][l] = n

\* the sequence of edge labels from the root to node n
RECURSIVE PathOf(_, _)
PathOf(g, n) ==
    IF n = 0 THEN <<>>
    ELSE LET p == ParentOf(g, n) IN Append(PathOf(g, p), EdgeLabel(g, p, n))

\* the node of the longest suffix of x, of length at most m, that is a path
\* from the root
SuffixNode(g, x, m) ==
    LET fits(c) == WalkFrom(g, SubSeq(x, Len(x) - c + 1, Len(x)), 1, 0) # -1
        best == CHOOSE c \in 0 .. m : fits(c) /\ \A d \in (c + 1) .. m : ~fits(d)
    IN  WalkFrom(g, SubSeq(x, Len(x) - best + 1, Len(x)), 1, 0)

\* C12: when buildAutomaton returns the failure link of every non-root node is the
\* node of the longest proper suffix of its path that is a path from the
\* root, and while search folds _findNext over the text the current node is
\* the node of the longest suffix of the scanned prefix that is such a path.
C12_FailureIsLongestSuffix ==
    /\ BuildReturned =>
           \A n \in DOMAIN goto \ {0} :
               LET x == PathOf(goto, n)
               IN  failure[n] = SuffixNode(goto, x, Len(x) - 1)
    /\ (pc = "search" /\ op \in {"search", "addBoldTag"}) =>
           j = SuffixNode(goto, Slice(s, 0, i), i)

\* C12 witness: the scan stands at a node whose failure link is not the root
C12_Witness ==
    /\ pc = "search" /\ words = <<<<"a", "b">>, <<"b">>>>
    /\ s = <<"a", "b">> /\ i = 2 /\ j = 2
    /\ failure[2] = 3 /\ PathOf(goto, 3) = <<"b">>

\* following failure links from node n reaches the root within fuel steps,
\* passing only through node ids
RECURSIVE ChainReachesRoot(_, _, _, _)
ChainReachesRoot(g, f, n, fuel) ==
    IF n = 0 THEN TRUE
    ELSE IF fuel = 0 \/ f[n] \notin DOMAIN g THEN FALSE
    ELSE ChainReachesRoot(g, f, f[n], fuel - 1)

\* the nodes on the failure chain of n, n included
RECURSIVE ChainNodes(_, _)
ChainNodes(f, n) == IF n = 0 THEN {0} ELSE {n} \cup ChainNodes(f, f[n])

\* C13: when buildAutomaton returns every failure link of a non-root node points to
\* a node of strictly smaller depth, so every failure chain reaches the root
\* through node ids only (the sentinel -1 of the root is never followed),
\* and _findNext(j, l) returns a node id for every node j and element l, the
\* root when no node of the chain has a transition on l.
C13_FindNextTotal ==
    BuildReturned =>
        /\ \A n \in DOMAIN goto \ {0} :
               /\ failure[n] \in DOMAIN goto
               /\ Len(PathOf(goto, failure[n])) < Len(PathOf(goto, n))
        /\ \A n \in DOMAIN goto :
               ChainReachesRoot(goto, failure, n, Cardinality(DOMAIN goto))
        /\ \A n \in DOMAIN goto : \A l \in Alphabet \cup {wild} :
               /\ findNext(CurAut, n, l) \in DOMAIN goto
               /\ (\A c \in ChainNodes(failure, n) : l \notin DOMAIN goto[c])
                      => findNext(CurAut, n, l) = 0

\* C13 witness: from a node of depth 2 an element is resolved over a failure
\* chain of two links, and an element without any transition gives the root
C13_Witness ==
    /\ BuildReturned /\ words = <<<<"a", "b">>, <<"b">>>>
    /\ ChainNodes(failure, 2) = {2, 3, 0}
    /\ findNext(CurAut, 2, "a") = 1
    /\ findNext(CurAut, 2, wild) = 0

\* C9: every per-pattern list returned by search is strictly ascending,
\* also when a pattern is listed more than once.
C9_ListsStrictlyAscending ==
    Searched => \A w \in DOMAIN res.val : StrictlyAscending(res.val[w])

(***************************************************************************)
(* addBoldTag                                                              *)
(***************************************************************************)
\* The output is a sequence of tokens: the elements of the text and the two
\* inserted markers, which are tokens of their own.
OpenTag == <<"<b>">>
CloseTag == <<"</b>">>
IsMarker(tok) == tok = "<b>" \/ tok = "</b>"

\* "".join(res)
RECURSIVE Join(_)
Join(pieces) == IF pieces = <<>> THEN <<>> ELSE Head(pieces) \o Join(Tail(pieces))

\* lines 577-580: the merged ranges of one pattern
RECURSIVE MergeStartsNoExtend(_, _, _, _)
MergeStartsNoExtend(starts, length, k, acc) ==
    IF k > Len(starts) THEN acc
    ELSE LET jv == starts[k]
         IN  IF acc = <<>> \/ jv > acc[Len(acc)][2]
             THEN MergeStartsNoExtend(starts, length, k + 1,
                                      Append(acc, <<jv, jv + length>>))
             ELSE MergeStartsNoExtend(starts, length, k + 1, acc)

RECURSIVE MergeStarts(_, _, _, _)
MergeStarts(starts, length, k, acc) ==
    IF k > Len(starts) THEN acc
    ELSE LET jv == starts[k]
         IN  IF acc = <<>> \/ jv > acc[Len(acc)][2]
             THEN MergeStarts(starts, length, k + 1, Append(acc, <<jv, jv + length>>))
             ELSE MergeStarts(starts, length, k + 1,
                              [acc EXCEPT ![Len(acc)][2] = jv + length])

\* lines 571-580
PatternRanges(d) ==
    [k \in 1 .. Len(d.keys) |->
        MergeStarts(d.val[d.keys[k]], Len(d.keys[k]), 1, <<>>)]

\* heap entries are the lists [start, -end, j, idx], ordered as Python
\* orders lists
LexLess(x, y) ==
    \E k \in 1 .. 4 : x[k] < y[k] /\ \A m \in 1 .. k - 1 : x[m] = y[m]

\* the entry heappop returns
HeapMin(h) == CHOOSE e \in h : \A f \in h \ {e} : LexLess(e, f)

HeapEntry(rs, jj, idx) == <<rs[idx + 1][jj + 1][1], -rs[idx + 1][jj + 1][2], jj, idx>>

\* line 582
FirstHeap(rs) == {HeapEntry(rs, 0, k - 1) : k \in 1 .. Len(rs)}

\* lines 591-592 and 607-608
PushNextNever(h, rs, jj, idx) == h
PushNext(h, rs, jj, idx) ==
    IF jj + 1 < Len(rs[idx + 1]) THEN h \cup {HeapEntry(rs, jj + 1, idx)} ELSE h

\* lines 600-603
FlushSpanNoGap(pieces, t, bs, be, i1) ==
    pieces \o <<Slice(t, bs, be), CloseTag, OpenTag>>
FlushSpan(pieces, t, bs, be, i1) ==
    pieces \o <<Slice(t, bs, be), CloseTag, Slice(t, be, i1), OpenTag>>

\* lines 566-568
BoldEntry ==
    /\ pc = "entry" /\ op = "addBoldTag"
    /\ IF Len(s) = 0
       THEN /\ ret' = s /\ pc' = "done"
            /\ UNCHANGED autVars
       ELSE /\ SetAut(NewAut) /\ pc' = "insert"
            /\ UNCHANGED ret
    /\ UNCHANGED <<op, s, words, pureVars, buildVars, searchVars,
                   rngs, heap, popped, outp, bs_i, be_i, scans>>

\* lines 570-580
BoldRanges ==
    /\ pc = "searched"
    /\ IF res.keys = <<>>
       THEN /\ ret' = s /\ pc' = "done"
            /\ UNCHANGED rngs
       ELSE /\ rngs' = PatternRanges(res) /\ pc' = "heapify"
            /\ UNCHANGED ret
    /\ UNCHANGED <<op, s, words, pureVars, autVars, buildVars, searchVars,
                   heap, popped, outp, bs_i, be_i, scans>>

\* lines 582-592
BoldFirstPop ==
    /\ pc = "heapify"
    /\ LET h == FirstHeap(rngs)
           e == HeapMin(h)
       IN  /\ outp' = (IF e[1] # 0 THEN <<Slice(s, 0, e[1])>> ELSE <<>>) \o <<OpenTag>>
           /\ bs_i' = e[1]
           /\ be_i' = -e[2]
           /\ heap' = PushNext(h \ {e}, rngs, e[3], e[4])
           /\ popped' = <<e>>
    /\ pc' = "merge"
    /\ UNCHANGED <<op, s, words, pureVars, autVars, buildVars, searchVars,
                   rngs, ret, scans>>

\* lines 593-608: one iteration of "while heap"
BoldMergeStep ==
    /\ pc = "merge" /\ heap # {}
    /\ LET e == HeapMin(heap)
           i1 == e[1]
           i2 == -e[2]
           n == Len(s)
       IN  /\ popped' = Append(popped, e)
           /\ IF i1 <= be_i
              THEN /\ be_i' = Max(be_i, i2)
                   /\ UNCHANGED <<outp, bs_i>>
              ELSE /\ outp' = FlushSpan(outp, s, bs_i, be_i, i1)
                   /\ bs_i' = i1
                   /\ be_i' = i2
           /\ IF be_i' = n
              THEN /\ heap' = heap \ {e}
                   /\ pc' = "finish"
              ELSE /\ heap' = PushNext(heap \ {e}, rngs, e[3], e[4])
                   /\ pc' = "merge"
    /\ UNCHANGED <<op, s, words, pureVars, autVars, buildVars, searchVars,
                   rngs, ret, scans>>

\* lines 609-612
BoldFinish ==
    /\ pc = "finish" \/ (pc = "merge" /\ heap = {})
    /\ outp' = outp \o <<Slice(s, bs_i, be_i), CloseTag>>
                    \o (IF be_i < Len(s) THEN <<Slice(s, be_i, Len(s))>> ELSE <<>>)
    /\ ret' = Join(outp')
    /\ pc' = "done"
    /\ UNCHANGED <<op, s, words, pureVars, autVars, buildVars, searchVars,
                   rngs, heap, popped, bs_i, be_i, scans>>

BoldDone == pc = "done" /\ op = "addBoldTag"

StripMarkers(x) == SelectSeq(x, LAMBDA tok : ~IsMarker(tok))

\* C3: removing the inserted markers from the output of addBoldTag gives
\* back the text exactly.
C3_StripGivesText == BoldDone => StripMarkers(ret) = s

\* C3 witness: a text with two separate bold spans has been tagged
C3_Witness ==
    /\ BoldDone /\ s = <<"a", "b", "a">>
    /\ ret = <<"<b>", "a", "</b>", "b", "<b>", "a", "</b>">>

\* the markers of x in order, each with the number of text elements before it
RECURSIVE Markers(_, _, _)
Markers(x, k, off) ==
    IF k > Len(x) THEN <<>>
    ELSE IF IsMarker(x[k]) THEN <<<<x[k], off>>>> \o Markers(x, k + 1, off)
    ELSE Markers(x, k + 1, off + 1)

\* C4: in the output of addBoldTag the span boundaries are strictly
\* increasing: opening and closing markers alternate, every span has its end
\* after its start, and the next span starts after at least one untagged
\* element.
C4_SpansStrictlyIncreasing ==
    BoldDone =>
        LET ms == Markers(ret, 1, 0)
        IN  /\ \A k \in 1 .. Len(ms) :
                   ms[k][1] = (IF k % 2 = 1 THEN "<b>" ELSE "</b>")
            /\ Len(ms) % 2 = 0
            /\ \A k \in 1 .. Len(ms) - 1 : ms[k][2] < ms[k + 1][2]

\* the text offsets of the elements of x that lie between an opening marker
\* and the following closing marker
RECURSIVE BoldOffsets(_, _, _, _)
BoldOffsets(x, k, off, inside) ==
    IF k > Len(x) THEN {}
    ELSE IF x[k] = "<b>" THEN BoldOffsets(x, k + 1, off, TRUE)
    ELSE IF x[k] = "</b>" THEN BoldOffsets(x, k + 1, off, FALSE)
    ELSE (IF inside THEN {off} ELSE {}) \cup BoldOffsets(x, k + 1, off + 1, inside)

\* the text offsets covered by an occurrence in t of a word of ws
CoveredOffsets(ws, t) ==
    {k \in 0 .. Len(t) - 1 :
        \E n \in 1 .. Len(ws) :
            \E b \in BruteForce(ws[n], t) : b <= k /\ k < b + Len(ws[n])}

\* C11: a position of the text lies inside a bold span of addBoldTag(s,
\* words) exactly if an occurrence of some word covers it; with an empty
\* word list, or when no word occurs in s, the text is returned unmodified.
C11_BoldIffCovered ==
    BoldDone =>
        /\ BoldOffsets(ret, 1, 0, FALSE) = CoveredOffsets(words, s)
        /\ (\A n \in 1 .. Len(words) : BruteForce(words[n], s) = {}) => ret = s

\* C11 witness: two overlapping occurrences of a word have been merged into
\* one span
C11_Witness ==
    /\ BoldDone /\ words = <<<<"a", "a">>, <<"a", "b">>>>
    /\ s = <<"a", "a", "a">>
    /\ ret = <<"<b>", "a", "a", "a", "</b>">>

\* the number of ranges of pattern idx that have been popped
Consumed(idx) == Cardinality({k \in 1 .. Len(popped) : popped[k][4] = idx})

\* C15: during the global merge the heap holds exactly the next unconsumed
\* merged range of every pattern that still has one (so at most one entry
\* per pattern); the ranges are popped in non-decreasing order of start, the
\* longer first at equal start; and when addBoldTag has left the loop every
\* merged range has been popped unless the bold span reaches the end of s.
C15_HeapIsFrontier ==
    (op = "addBoldTag" /\ pc \in {"merge", "finish", "done"} /\ rngs # <<>>) =>
        LET ids == 0 .. Len(rngs) - 1
        IN  /\ pc = "merge" =>
                   /\ heap = {HeapEntry(rngs, Consumed(x), x) :
                                 x \in {y \in ids : Consumed(y) < Len(rngs[y + 1])}}
                   /\ \A x \in ids : Cardinality({e \in heap : e[4] = x}) <= 1
            /\ \A k \in 1 .. Len(popped) :
                   popped[k] = HeapEntry(rngs, popped[k][3], popped[k][4])
            /\ \A k \in 1 .. Len(popped) - 1 :
                   \/ popped[k][1] < popped[k + 1][1]
                   \/ /\ popped[k][1] = popped[k + 1][1]
                      /\ popped[k][2] <= popped[k + 1][2]
            /\ (pc \in {"finish", "done"} \/ heap = {}) =>
                   \/ be_i = Len(s)
                   \/ \A x \in ids : Consumed(x) = Len(rngs[x + 1])

\* C15 witness: two ranges have been popped and the heap holds the second
\* range of the first pattern
C15_Witness ==
    /\ op = "addBoldTag" /\ pc = "merge"
    /\ s = <<"a", "b", "a">> /\ words = <<<<"a">>, <<"b">>>>
    /\ popped = <<<<0, -1, 0, 0>>, <<1, -2, 0, 1>>>>
    /\ heap = {<<2, -3, 1, 0>>}

Next == AhoCorasickInit \/ InsertWord \/ SeedQueue \/ BfsStep \/ SearchStart
            \/ SearchStep \/ SearchReturn
            \/ BoldEntry \/ BoldRanges \/ BoldFirstPop \/ BoldMergeStep \/ BoldFinish

Spec == Init /\ [][Next]_vars

(***************************************************************************)
(* Specification SpecScan: once the automaton is built, two callers scan   *)
(* the text with search, searchEndIndices or searchLengths, one text       *)
(* element at a time, their steps interleaved in any order.                *)
(***************************************************************************)
MaxScanWords == 1   \* most patterns of the automaton that is scanned
MaxScanWordLen == 2 \* longest pattern of the automaton that is scanned
MaxScanLen == 2     \* longest text of a concurrent scan

Scanners == {1, 2}
ScanKinds == {"search", "searchEndIndices", "searchLengths"}

\* lines 506-509 and 520-523: the positions of the set bits of bm
RECURSIVE BitList(_, _, _)
BitList(bm, idx, acc) ==
    IF bm = 0 THEN acc
    ELSE BitList(bm \div 2, idx + 1, IF bm % 2 = 1 THEN Append(acc, idx) ELSE acc)

\* The automaton after a call of _findNext(jj, l): the method reads goto and
\* failure ("in self.goto[j].keys()", "self.failure[j]", ".get(l, 0)") and
\* assigns only its local j.
FindNextEffectSetdefault(A, jj, l) ==
    LET k == FindNextLoop(A, jj, l)
    IN  IF l \in DOMAIN A.goto[k] THEN A
        ELSE [A EXCEPT !.goto[k] = (l :> 0) @@ @]
FindNextEffect(A, jj, l) == A

\* the first statements of search / searchEndIndices / searchLengths
ScanBegin(kind, text) ==
    [kind |-> kind, text |-> text, i |-> 0, j |-> 0,
     yields |-> IF kind = "search" THEN EmptyDict ELSE <<>>]

\* one iteration of "for i, l in enumerate(s)" of the three scans
ScanAdvance(A, ws, sc) ==
    LET j2 == findNext(A, sc.j, sc.text[sc.i + 1])
    IN  [sc EXCEPT
           !.j = j2,
           !.i = sc.i + 1,
           !.yields =
               IF sc.kind = "search"
               THEN SearchEmit(ws, 1, A.out[j2], sc.i, sc.yields)
               ELSE IF sc.kind = "searchEndIndices"
               THEN Append(sc.yields, <<sc.i, BitList(A.out[j2], 0, <<>>)>>)
               ELSE Append(sc.yields, BitList(A.out_lens[j2], 0, <<>>))]

IdleScan == [kind |-> "idle", text |-> <<>>, i |-> 0, j |-> 0, yields |-> <<>>]

InitScan ==
    /\ pc = "entry" /\ op = "scan"
    /\ s \in SeqsUpTo(Alphabet, MaxScanLen)
    /\ words \in SeqsUpTo(SeqsUpTo(Alphabet, MaxScanWordLen), MaxScanWords)
    /\ IdlePure /\ IdleAut /\ IdleSearch /\ IdleBold
    /\ scans = [k \in Scanners |-> IdleScan]

\* buildAutomaton returns; the automaton is handed to the scanning callers
ScanReady ==
    /\ pc = "bfs" /\ queue = <<>> /\ op = "scan"
    /\ pc' = "scan"
    /\ UNCHANGED <<op, s, words, pureVars, autVars, buildVars, searchVars,
                   boldVars, scans>>

ScanStart(k) ==
    /\ pc = "scan" /\ scans[k].kind = "idle"
    /\ \E kind \in ScanKinds :
           scans' = [scans EXCEPT ![k] = ScanBegin(kind, s)]
    /\ UNCHANGED <<pc, op, s, words, pureVars, autVars, buildVars, searchVars,
                   boldVars>>

ScanStep(k) ==
    /\ pc = "scan" /\ scans[k].kind # "idle" /\ scans[k].i < Len(scans[k].text)
    /\ scans' = [scans EXCEPT ![k] = ScanAdvance(CurAut, words, scans[k])]
    /\ SetAut(FindNextEffect(CurAut, scans[k].j, scans[k].text[scans[k].i + 1]))
    /\ UNCHANGED <<pc, op, s, words, pureVars, buildVars, searchVars, boldVars>>

NextScan == AhoCorasickInit \/ InsertWord \/ SeedQueue \/ BfsStep \/ ScanReady
                \/ (\E k \in Scanners : ScanStart(k))
                \/ (\E k \in Scanners : ScanStep(k))

SpecScan == InitScan /\ [][NextScan]_vars

\* the scan of the first n elements of text, running alone on automaton A
RECURSIVE SoloScan(_, _, _, _, _)
SoloScan(A, ws, kind, text, n) ==
    IF n = 0 THEN ScanBegin(kind, text)
    ELSE ScanAdvance(A, ws, SoloScan(A, ws, kind, text, n - 1))

ScansAgreeWithSolo ==
    pc = "scan" =>
        \A k \in Scanners :
            scans[k].kind # "idle" =>
                scans[k] = SoloScan(CurAut, words, scans[k].kind,
                                    scans[k].text, scans[k].i)

\* C10: once the automaton is built no scan step changes goto, failure, out
\* or out_lens, and every scan whose steps are interleaved with those of
\* another scan has produced what it produces when it runs alone.
C10_ScansDoNotInterfere ==
    /\ [][pc = "scan" => UNCHANGED autVars]_vars
    /\ []ScansAgreeWithSolo

\* C10 witness: the second scan has run to its end while the first scan is
\* between its two steps
C10_Witness ==
    /\ pc = "scan" /\ words = <<<<"a", "b">>>> /\ s = <<"a", "b">>
    /\ scans[1].kind = "search" /\ scans[1].i = 1
    /\ scans[2].kind = "searchLengths" /\ scans[2].i = 2
    /\ scans[2].yields = <<<<>>, <<2>>>>

=============================================================================
